---------------------------- MODULE Spec2Model ----------------------------
(***************************************************************************)
(* Model of the resilient fetch engine of src/src/util:                    *)
(*   - TokenBucket (anti_scrape.py), shared by concurrent callers;         *)
(*   - the retry decorator (retry.py) wrapped around a fallible operation; *)
(*   - get / _request_with_anti_scrape (anti_scrape.py): the fetch, which   *)
(*     is that decorator wrapped around a loop of paced, rate-limited       *)
(*     transport calls.                                                     *)
(*                                                                         *)
(* Time is discrete.  One tick is the polling interval of consume (0.1 s); *)
(* rate is measured in tokens per tick, tokens and costs in whole tokens.  *)
(* Two threads share the bucket.                                           *)
(***************************************************************************)
EXTENDS Integers, Sequences, FiniteSets, TLC

\* ------------------------------------------------------------------ bounds
MaxCalls == 3       \* consume calls issued in all
MaxRate == 1        \* largest rate (tokens per tick) tried
MaxBurst == 1       \* largest burst (capacity) tried
MaxCost == 2        \* largest cost passed to consume
MaxTime == 2        \* last clock reading of the bounded-time specification

MaxTries == 3       \* largest tries given to retry()
MaxDelay == 1       \* largest initial delay given to retry()
MaxBackoff == 2     \* largest backoff multiplier given to retry()
MaxJitter == 1      \* largest jitter given to retry()

MaxStatusRetries == 1   \* largest status_retries given to get()

MaxSends == 2           \* requests sent by the threads in all

PollTicks == 1      \* the fixed wait used when rate = 0 (0.1 s = 1 tick)

Callers == {1, 2}   \* the concurrent threads calling consume
NoOne == 0          \* value of lock when the Lock is free
Costs == (-1)..MaxCost

Min(a, b) == IF a <= b THEN a ELSE b
Max(a, b) == IF a >= b THEN a ELSE b

VARIABLES
    \* TokenBucket fields
    rate, capacity, tokens, updated_at, lock,
    \* time.monotonic()
    now,
    \* per-thread frame of consume
    pc, cost, tested, needed, sleep_from,
    \* history of the run (not read by the program)
    ncalls, deducted, nsleeps, admitted,
    \* arguments of retry(...) and of one call of the wrapper
    exceptions, tries, delay, backoff, jitter, timeout, on_backoff, kwargs,
    \* frame of one call of the wrapper
    wpc, attempt, current_delay, last_exc, outcome,
    \* history of that call: the invocations, callbacks and sleeps in order
    log,
    \* argument and frame of one invocation of _request_with_anti_scrape
    status_retries, fpc, req_attempt, resp, ident, req_timeout,
    \* the response the fetch ended with (returned, or inside the HTTPError)
    carried,
    \* history of the fetch: the steps of the current pass of the loop, the
    \* counts of each kind of step, whether every answer so far was a 429,
    \* and the status backoff delays slept
    trail, n_paces, n_draws, n_requests, only_429, status_sleeps,
    \* the environment read at start-up: the two user-agent variables, the
    \* user-agent file and HTTP_PROXIES
    config,
    \* how far start-up has got, UserAgentProvider._ua_list and
    \* ProxyProvider._proxies
    loaded, _ua_list, _proxies,
    \* per thread: where it is in an attempt, the identity it drew, and the
    \* request it sent with it (the caller's headers, the outgoing headers
    \* and the proxies)
    idpc, drawn, sent, n_sent,
    \* per thread: the frame of its invocation of the decorated fetch, and
    \* how its finished invocations ended
    frames, ended,
    \* one call of parse_json_or_html: its arguments and what it returned
    call, result,
    \* one call of the scheduler's run_with_retry, and one call of
    \* MySQLCRUD.call_procedure
    job, db

bucketVars == <<rate, capacity, tokens, updated_at, lock>>
frameVars == <<pc, cost, tested, needed, sleep_from>>
histVars == <<ncalls, deducted, nsleeps, admitted>>
bucketAll == <<bucketVars, now, frameVars, histVars>>
retryArgs == <<exceptions, tries, delay, backoff, jitter, timeout, on_backoff, kwargs>>
retryFrame == <<wpc, attempt, current_delay, last_exc, outcome>>
retryAll == <<retryArgs, retryFrame, log>>
fetchFrame == <<status_retries, fpc, req_attempt, resp, ident, req_timeout, carried>>
fetchHist == <<trail, n_paces, n_draws, n_requests, only_429, status_sleeps>>
fetchAll == <<fetchFrame, fetchHist>>
pools == <<_ua_list, _proxies>>
identityAll == <<config, loaded, pools, idpc, drawn, sent, n_sent>>
threadsAll == <<frames, ended>>
extractAll == <<call, result>>
servicesAll == <<job, db>>
vars == <<bucketAll, retryAll, fetchAll, identityAll, threadsAll, extractAll, servicesAll>>
\* what the steps of one component leave alone
outsideBucket == <<retryAll, fetchAll, identityAll, threadsAll, extractAll, servicesAll>>
outsideRetry == <<bucketAll, fetchAll, identityAll, threadsAll, extractAll, servicesAll>>
outsideFetch == <<identityAll, threadsAll, extractAll, servicesAll>>
outsideIdentity == <<bucketAll, retryAll, fetchAll, threadsAll, extractAll, servicesAll>>

\* ------------------------------------------------------ TokenBucket.__init__
\* rate = max(0.0, rate); capacity = max(1, burst); tokens = capacity;
\* updated_at = now.  The constructor arguments range over small sets that
\* include the values the max() calls clamp.
CtorRate(r) == Max(0, r)
CtorCapacity(b) == Max(1, b)

NewBucket(r, b) ==
    /\ now = 0
    /\ rate = CtorRate(r)
    /\ capacity = CtorCapacity(b)
    /\ tokens = capacity
    /\ updated_at = now
    /\ lock = NoOne
    /\ pc = [c \in Callers |-> "idle"]
    /\ cost = [c \in Callers |-> 0]
    /\ tested = [c \in Callers |-> 0]
    /\ needed = [c \in Callers |-> 0]
    /\ sleep_from = [c \in Callers |-> 0]
    /\ ncalls = 0
    /\ deducted = [c \in Callers |-> 0]
    /\ nsleeps = [c \in Callers |-> 0]
    /\ admitted = 0

\* ------------------------------------------------------ TokenBucket._refill
\* tokens = min(capacity, tokens + elapsed * rate), elapsed = max(0, now - updated_at)
\* (faulty variant: operands swapped)
ElapsedSwapped == Max(0, updated_at - now)
Elapsed == Max(0, now - updated_at)
\* (faulty variant: no min with capacity)
RefilledUncapped == tokens + Elapsed * rate
RefilledTokens == Min(capacity, tokens + Elapsed * rate)
\* self.updated_at = now  (faulty variant: the stamp is not moved)
RefillStampStale == updated_at
RefillStamp == now

\* `if self.tokens >= cost`  (faulty variants: any token left is enough; a
\* full bucket admits any cost)
EnoughAny(t, k) == t > 0
EnoughOrFull(t, k) == t >= k \/ t = capacity
Enough(t, k) == t >= k

\* the Lock after thread c has left the `with self._lock` block
Released(c) == IF lock = c THEN NoOne ELSE lock
\* the Lock while thread c sleeps: time.sleep is outside the with block
\* (faulty variant: the sleep is inside it)
LockKeptWhileSleeping(c) == lock
LockWhileSleeping(c) == Released(c)

\* ------------------------------------------------------ TokenBucket.consume
\* faulty variant of Call without the `if cost <= 0: return` guard
CallUnguarded(c, k) ==
    /\ UNCHANGED outsideBucket
    /\ pc[c] \in {"idle", "returned"}
    /\ ncalls < MaxCalls
    /\ ncalls' = ncalls + 1
    /\ cost' = [cost EXCEPT ![c] = k]
    /\ deducted' = [deducted EXCEPT ![c] = 0]
    /\ nsleeps' = [nsleeps EXCEPT ![c] = 0]
    /\ tested' = [tested EXCEPT ![c] = 0]
    /\ pc' = [pc EXCEPT ![c] = "acquire"]
    /\ UNCHANGED <<bucketVars, now, needed, sleep_from, admitted>>

\* consume(k) is entered; `if cost <= 0: return` leaves at once.
Call(c, k) ==
    /\ UNCHANGED outsideBucket
    /\ pc[c] \in {"idle", "returned"}
    /\ ncalls < MaxCalls
    /\ ncalls' = ncalls + 1
    /\ cost' = [cost EXCEPT ![c] = k]
    /\ deducted' = [deducted EXCEPT ![c] = 0]
    /\ nsleeps' = [nsleeps EXCEPT ![c] = 0]
    /\ tested' = [tested EXCEPT ![c] = 0]
    /\ pc' = [pc EXCEPT ![c] = IF k <= 0 THEN "returned" ELSE "acquire"]
    /\ UNCHANGED <<bucketVars, now, needed, sleep_from, admitted>>

\* faulty variant of Acquire that does not wait for the Lock
AcquireNoLock(c) ==
    /\ UNCHANGED outsideBucket
    /\ pc[c] = "acquire"
    /\ lock' = c
    /\ pc' = [pc EXCEPT ![c] = "refill"]
    /\ UNCHANGED <<rate, capacity, tokens, updated_at, now, cost, tested, needed,
                   sleep_from, histVars>>

\* `with self._lock:` entered: blocks while another thread holds the Lock
Acquire(c) ==
    /\ UNCHANGED outsideBucket
    /\ pc[c] = "acquire"
    /\ lock = NoOne
    /\ lock' = c
    /\ pc' = [pc EXCEPT ![c] = "refill"]
    /\ UNCHANGED <<rate, capacity, tokens, updated_at, now, cost, tested, needed,
                   sleep_from, histVars>>

\* One pass of the locked block up to the branch: self._refill(), then
\* `if self.tokens >= cost`.  When the test fails the rest of the block runs
\* in the same step: needed = cost - tokens, wait_time = needed / rate (0.1 s
\* when rate = 0), the with block is left (the lock is released) and
\* time.sleep(wait_time) starts.
RefillAndTest(c) ==
    /\ UNCHANGED outsideBucket
    /\ pc[c] = "refill"
    /\ tokens' = RefilledTokens
    /\ updated_at' = RefillStamp
    /\ IF Enough(tokens', cost[c])
       THEN /\ tested' = [tested EXCEPT ![c] = tokens']
            /\ pc' = [pc EXCEPT ![c] = "deduct"]
            /\ UNCHANGED <<lock, needed, sleep_from, nsleeps>>
       ELSE /\ needed' = [needed EXCEPT ![c] = cost[c] - tokens']
            /\ sleep_from' = [sleep_from EXCEPT ![c] = now]
            /\ lock' = LockWhileSleeping(c)
            /\ nsleeps' = [nsleeps EXCEPT ![c] = Min(2, @ + 1)]
            /\ pc' = [pc EXCEPT ![c] = "sleep"]
            /\ UNCHANGED tested
    /\ UNCHANGED <<rate, capacity, now, cost, ncalls, deducted, admitted>>

\* `self.tokens -= cost; return` (leaving the with block releases the lock)
DeductAndReturn(c) ==
    /\ UNCHANGED outsideBucket
    /\ pc[c] = "deduct"
    /\ tokens' = tokens - cost[c]
    /\ lock' = Released(c)
    /\ deducted' = [deducted EXCEPT ![c] = @ + cost[c]]
    /\ tested' = [tested EXCEPT ![c] = 0]
    /\ pc' = [pc EXCEPT ![c] = "returned"]
    /\ UNCHANGED <<rate, capacity, updated_at, now, cost, needed,
                   sleep_from, ncalls, nsleeps>>

\* The same step with the total admitted cost recorded ...
Deduct(c) == DeductAndReturn(c) /\ admitted' = admitted + cost[c]
\* ... and not recorded (the total plays no part in what consume does)
DeductUncounted(c) == DeductAndReturn(c) /\ admitted' = admitted

\* time.sleep(max(0.0, wait_time)) has lasted at least wait_time
\* (faulty variant: the sleep may end at any time)
SleptAnyTime(c) == TRUE
SleptEnough(c) ==
    IF rate > 0 THEN (now - sleep_from[c]) * rate >= Max(0, needed[c])
                ELSE now - sleep_from[c] >= PollTicks

\* the sleep ends and the `while True` loop starts its next iteration
Wake(c) ==
    /\ UNCHANGED outsideBucket
    /\ pc[c] = "sleep"
    /\ SleptEnough(c)
    /\ pc' = [pc EXCEPT ![c] = "acquire"]
    /\ needed' = [needed EXCEPT ![c] = 0]
    /\ sleep_from' = [sleep_from EXCEPT ![c] = 0]
    /\ UNCHANGED <<bucketVars, now, cost, tested, histVars>>

\* the monotonic clock advances
Tick ==
    /\ UNCHANGED outsideBucket
    /\ now < MaxTime
    /\ now' = now + 1
    /\ UNCHANGED <<bucketVars, frameVars, histVars>>

\* The clock advancing without bound, kept in a finite window: consume reads
\* the clock only through now - updated_at and now - sleep_from, and a
\* difference of Horizon ticks or more acts like Horizon (the refill has
\* reached capacity, every wait_time has passed).  So a tick is recorded by
\* moving the past timestamps one tick back, no further than Horizon ticks
\* before now, instead of moving now forward.
Horizon == Max(Max(MaxBurst, MaxCost), PollTicks)
TickWindow ==
    /\ UNCHANGED outsideBucket
    /\ now' = now
    /\ updated_at' = Max(now - Horizon, updated_at - 1)
    /\ sleep_from' = [c \in Callers |->
                        IF pc[c] = "sleep" THEN Max(now - Horizon, sleep_from[c] - 1)
                                           ELSE sleep_from[c]]
    /\ UNCHANGED <<rate, capacity, tokens, lock, pc, cost, tested, needed, histVars>>

Consume(c) ==
    \/ \E k \in Costs : Call(c, k)
    \/ Acquire(c)
    \/ RefillAndTest(c)
    \/ Deduct(c)
    \/ Wake(c)

\* ---------------------------------------------------------------- retry()
\* The failure kinds an invocation of the wrapped function can raise, and the
\* tuples of kinds given as `exceptions`.
Kinds == {"Timeout", "ConnectionError", "HTTPError"}
ExceptionTuples == {{"Timeout", "ConnectionError"}, {"Timeout"}}
NoTimeout == 0          \* None as a timeout
DefaultTimeout == 15    \* timeout: Optional[float] = 15.0
CallerTimeout == 5      \* a timeout the caller passes itself
NoExc == [kind |-> "none", n |-> 0]     \* last_exc = None; a call that succeeded
Exc(k, n) == [kind |-> k, n |-> n]      \* the exception raised by invocation n

Ev(e, n, x, d, j, kw) == [ev |-> e, n |-> n, exc |-> x, d |-> d, j |-> j, kw |-> kw]

\* The arguments retry() accepts (tries >= 1, delay >= 0, backoff >= 1,
\* jitter >= 0; anything else raises ValueError before a wrapper exists), and
\* the start of one call of the wrapper: current_delay = delay, attempt = 1,
\* last_exc = None.  kwargs holds the caller's timeout keyword: <<>> when the
\* keyword is not passed, <<NoTimeout>> when it is passed as None.
NewWrapperCall ==
    /\ exceptions \in ExceptionTuples
    /\ tries \in 1..MaxTries
    /\ delay \in 0..MaxDelay
    /\ backoff \in 1..MaxBackoff
    /\ jitter \in 0..MaxJitter
    /\ timeout \in {NoTimeout, DefaultTimeout}
    /\ on_backoff \in BOOLEAN
    /\ kwargs \in {<<>>, <<NoTimeout>>, <<CallerTimeout>>}
    /\ wpc = "call"
    /\ attempt = 1
    /\ current_delay = delay
    /\ last_exc = NoExc
    /\ outcome = NoExc
    /\ log = <<>>

\* call_kwargs = dict(kwargs); the default timeout is put in only when the
\* key is not there
CallKwargs == IF timeout # NoTimeout /\ kwargs = <<>> THEN <<timeout>> ELSE kwargs

\* `except exceptions as exc`  (faulty variant: every kind is caught)
RetryableAll(k) == TRUE
Retryable(k) == k \in exceptions

\* `if attempt == tries: raise`  (faulty variants: one attempt early; one
\* attempt late)
IsFinalAttemptEarly(a, t) == a >= t - 1
IsFinalAttemptLate(a, t) == a > t
IsFinalAttempt(a, t) == a = t

\* `attempt += 1`  (faulty variant: the counter is not moved)
NextAttemptStuck(a) == a
NextAttempt(a) == a + 1

\* `current_delay *= backoff`
NextDelay(d) == d * backoff

\* One pass of `while attempt <= tries` up to the end of the invocation:
\* func(*args, **call_kwargs) returns (k = "none") or raises a failure of
\* kind k.  A return leaves the wrapper; a failure that `except exceptions`
\* does not catch propagates; a caught one is kept in last_exc and re-raised
\* when this was the last attempt.  (The code after the loop is not reached:
\* attempt never exceeds tries.)
InvokeEnds(k) ==
    /\ wpc = "call"
    /\ attempt <= tries
    /\ LET x == IF k = "none" THEN NoExc ELSE Exc(k, attempt) IN
        /\ log' = Append(log, Ev("invoke", attempt, x, 0, 0, CallKwargs))
        /\ IF k = "none"
           THEN wpc' = "returned" /\ outcome' = Exc("result", attempt)
                /\ UNCHANGED last_exc
           ELSE IF ~Retryable(k)
           THEN wpc' = "raised" /\ outcome' = x /\ UNCHANGED last_exc
           ELSE /\ last_exc' = x
                /\ IF IsFinalAttempt(attempt, tries)
                   THEN wpc' = "raised" /\ outcome' = x
                   ELSE wpc' = (IF on_backoff THEN "callback" ELSE "sleep")
                        /\ UNCHANGED outcome
    /\ UNCHANGED <<retryArgs, attempt, current_delay>>

\* The same with a function that is one step: it returns or raises at once.
Invoke(k) == InvokeEnds(k) /\ UNCHANGED outsideRetry

\* `except Exception: pass` around the callback: whatever the callback did,
\* the sleep is next  (faulty variant: a failed callback ends the wrapper)
AfterCallbackRaised(ok) == IF ok THEN "sleep" ELSE "raised"
AfterCallback(ok) == "sleep"

\* `on_backoff(attempt, exc)` inside try / `except Exception: pass`: the
\* callback returns (ok) or raises an Exception, which is dropped.
Callback(ok) ==
    /\ wpc = "callback"
    /\ log' = Append(log, Ev(IF ok THEN "backoff" ELSE "backoff_failed",
                             attempt, last_exc, 0, 0, <<>>))
    /\ wpc' = AfterCallback(ok)
    /\ UNCHANGED <<retryArgs, attempt, current_delay, last_exc, outcome>>
    /\ UNCHANGED outsideRetry

\* sleep_for = current_delay + (random.uniform(0, jitter) if jitter else 0);
\* time.sleep(max(0, sleep_for)); current_delay *= backoff; attempt += 1
BackoffSleep(j) ==
    /\ wpc = "sleep"
    /\ log' = Append(log, Ev("sleep", attempt, last_exc, current_delay, j, <<>>))
    /\ current_delay' = NextDelay(current_delay)
    /\ attempt' = NextAttempt(attempt)
    /\ wpc' = "call"
    /\ UNCHANGED <<retryArgs, last_exc, outcome>>
    /\ UNCHANGED outsideRetry

Wrapper ==
    \/ \E k \in Kinds \cup {"none"} : Invoke(k)
    \/ \E ok \in BOOLEAN : Callback(ok)
    \/ \E j \in 0..jitter : BackoffSleep(j)

\* No wrapper call is in progress
NoWrapperCall ==
    /\ exceptions = {} /\ tries = 1 /\ delay = 0 /\ backoff = 1 /\ jitter = 0
    /\ timeout = NoTimeout /\ on_backoff = FALSE /\ kwargs = <<>>
    /\ wpc = "none" /\ attempt = 1 /\ current_delay = 0
    /\ last_exc = NoExc /\ outcome = NoExc /\ log = <<>>

\* ------------------------------------------------------------- the fetch
\* get() -> _request_with_anti_scrape(), decorated with
\*   @retry(exceptions=(Timeout, ConnectionError), tries=5, delay=1,
\*          backoff=2, jitter=0.3, timeout=15, on_backoff=_on_backoff)
\* One fetch is one call of that wrapper; each invocation the wrapper makes
\* runs the body of _request_with_anti_scrape from its first line.
FetchExceptionsAll == Kinds
FetchExceptions == {"Timeout", "ConnectionError"}
FetchDelay == 1
FetchBackoff == 2

AntiBot == {403, 429, 503}
Statuses == {200, 404, 500} \cup AntiBot
TransportFailures == {"Timeout", "ConnectionError"}
UserAgents == {"ua1", "ua2"}       \* _UA_PROVIDER._ua_list
Proxies == {"none", "proxy1"}      \* None, or one of _PROXY_PROVIDER._proxies
NoResponse == 0
LoopOrder == <<"pace", "admit", "identity", "request">>

\* get(url, timeout=None, ...) hands its timeout on as a keyword, None
\* included: `timeout=timeout`
GetKwargs(t) == <<t>>

\* the timeout parameter of the body: the keyword the wrapper passed, else
\* the default None
BodyTimeout == IF CallKwargs = <<>> THEN NoTimeout ELSE CallKwargs[1]

\* `if resp.status_code in (403, 429, 503)`  (faulty variant: every error
\* status is taken for a block)
IsAntiBotAnyError(s) == s >= 400
IsAntiBot(s) == s \in AntiBot

\* `if attempt > status_retries + 1`  (faulty variants: one cycle early;
\* never)
BudgetExceededEarly(a, k) == a > k
BudgetNeverExceeded(a, k) == FALSE
BudgetExceeded(a, k) == a > k + 1

\* what the body does with a response that is no block: `return resp`
\* (faulty variant: raise_for_status() on it first)
ReplyOutcomeChecked(s) == IF s >= 400 THEN "HTTPError" ELSE "none"
ReplyOutcome(s) == "none"

\* where `continue` leads: the top of the loop  (faulty variant: straight
\* to the request)
AfterStatusSleepDirect == "request"
AfterStatusSleep == "pace"

\* 2 ** (attempt - 1)  (faulty variant: a product in place of the power)
Pow2AsProduct(i) == 2 * i
RECURSIVE Pow2(_)
Pow2(i) == IF i <= 0 THEN 1 ELSE 2 * Pow2(i - 1)

\* the state of a fetch that has just been called
NewFetch(k, t) ==
    /\ exceptions = FetchExceptions
    /\ tries \in 1..MaxTries
    /\ delay = FetchDelay
    /\ backoff = FetchBackoff
    /\ jitter = 0
    /\ timeout = DefaultTimeout
    /\ on_backoff = TRUE
    /\ kwargs = GetKwargs(t)
    /\ wpc = "call" /\ attempt = 1 /\ current_delay = delay
    /\ last_exc = NoExc /\ outcome = NoExc /\ log = <<>>
    /\ status_retries = k
    /\ fpc = "idle" /\ req_attempt = 0 /\ resp = NoResponse
    /\ ident = <<>> /\ req_timeout = NoTimeout /\ carried = NoResponse
    /\ trail = <<>> /\ n_paces = 0 /\ n_draws = 0 /\ n_requests = 0
    /\ only_429 = TRUE /\ status_sleeps = <<>>

\* No fetch is in progress
NoFetch ==
    /\ status_retries = 0
    /\ fpc = "idle" /\ req_attempt = 0 /\ resp = NoResponse
    /\ ident = <<>> /\ req_timeout = NoTimeout /\ carried = NoResponse
    /\ trail = <<>> /\ n_paces = 0 /\ n_draws = 0 /\ n_requests = 0
    /\ only_429 = TRUE /\ status_sleeps = <<>>

\* The wrapper invokes the function: sess = session or requests.Session();
\* attempt = 0
BodyEnter ==
    /\ UNCHANGED outsideFetch
    /\ wpc = "call" /\ attempt <= tries
    /\ fpc = "idle"
    /\ fpc' = "pace"
    /\ req_attempt' = 0
    /\ resp' = NoResponse
    /\ UNCHANGED <<status_retries, ident, req_timeout, carried, fetchHist>>
    /\ UNCHANGED <<bucketAll, retryAll>>

\* Top of `while True`: attempt += 1; random_page_delay()
Pace ==
    /\ UNCHANGED outsideFetch
    /\ fpc = "pace"
    /\ req_attempt' = req_attempt + 1
    /\ n_paces' = n_paces + 1
    /\ trail' = <<"pace">>
    /\ fpc' = "admit"
    /\ UNCHANGED <<status_retries, resp, ident, req_timeout, carried>>
    /\ UNCHANGED <<n_draws, n_requests, only_429, status_sleeps>>
    /\ UNCHANGED <<bucketAll, retryAll>>

\* _BUCKET.consume(1.0), from the call to the return, by the one thread of
\* this fetch: w is the time since the last refill at which the test
\* `tokens >= cost` succeeds (the call has slept until then if it had to);
\* the clock is read relative to that refill.
Admit(w) ==
    /\ UNCHANGED outsideFetch
    /\ fpc = "admit"
    /\ LET t == Min(capacity, tokens + w * rate) IN
        /\ Enough(t, 1)
        /\ tokens' = t - 1
    /\ admitted' = admitted + 1
    /\ trail' = Append(trail, "admit")
    /\ fpc' = "identity"
    /\ UNCHANGED <<rate, capacity, updated_at, lock, now, frameVars,
                   ncalls, deducted, nsleeps>>
    /\ UNCHANGED <<status_retries, req_attempt, resp, ident, req_timeout, carried>>
    /\ UNCHANGED <<n_paces, n_draws, n_requests, only_429, status_sleeps>>
    /\ UNCHANGED retryAll

\* ua = _UA_PROVIDER.random(); proxy = _PROXY_PROVIDER.random()
DrawIdentity(ua, proxy) ==
    /\ UNCHANGED outsideFetch
    /\ fpc = "identity"
    /\ ident' = <<ua, proxy>>
    /\ n_draws' = n_draws + 1
    /\ trail' = Append(trail, "identity")
    /\ fpc' = "request"
    /\ UNCHANGED <<status_retries, req_attempt, resp, req_timeout, carried>>
    /\ UNCHANGED <<n_paces, n_requests, only_429, status_sleeps>>
    /\ UNCHANGED <<bucketAll, retryAll>>

\* sess.request(..., timeout=timeout) raises Timeout or ConnectionError:
\* `except (requests.Timeout, requests.ConnectionError): raise` hands the
\* failure to the wrapper, which ends this invocation.
RequestFails(k) ==
    /\ UNCHANGED outsideFetch
    /\ fpc = "request"
    /\ n_requests' = n_requests + 1
    /\ req_timeout' = BodyTimeout
    /\ trail' = Append(trail, "request")
    /\ resp' = NoResponse
    /\ fpc' = "idle"
    /\ only_429' = FALSE
    /\ InvokeEnds(k)
    /\ UNCHANGED <<status_retries, req_attempt, ident, carried>>
    /\ UNCHANGED <<n_paces, n_draws, status_sleeps>>
    /\ UNCHANGED bucketAll

\* sess.request(..., timeout=timeout) answers with status s, and what
\* follows it.  A block status within the budget leads to the status sleep;
\* beyond the budget, resp.raise_for_status() raises an HTTPError that holds
\* resp; any other status is returned.
Request(s) ==
    /\ UNCHANGED outsideFetch
    /\ fpc = "request"
    /\ n_requests' = n_requests + 1
    /\ req_timeout' = BodyTimeout
    /\ trail' = Append(trail, "request")
    /\ only_429' = (only_429 /\ s = 429)
    /\ resp' = s
    /\ IF IsAntiBot(s) /\ ~BudgetExceeded(req_attempt, status_retries)
       THEN /\ fpc' = "status_sleep"
            /\ UNCHANGED <<carried, retryAll>>
       ELSE /\ fpc' = "idle"
            /\ carried' = s
            /\ InvokeEnds(IF IsAntiBot(s) THEN "HTTPError" ELSE ReplyOutcome(s))
    /\ UNCHANGED <<status_retries, req_attempt, ident>>
    /\ UNCHANGED <<n_paces, n_draws, status_sleeps>>
    /\ UNCHANGED bucketAll

\* sleep_for = 2 ** (attempt - 1) + random.uniform(0, 0.5);
\* time.sleep(sleep_for); continue
StatusSleep ==
    /\ UNCHANGED outsideFetch
    /\ fpc = "status_sleep"
    /\ status_sleeps' = Append(status_sleeps, Pow2(req_attempt - 1))
    /\ fpc' = AfterStatusSleep
    /\ UNCHANGED <<status_retries, req_attempt, resp, ident, req_timeout, carried>>
    /\ UNCHANGED <<trail, n_paces, n_draws, n_requests, only_429>>
    /\ UNCHANGED <<bucketAll, retryAll>>

\* The fetch: the body's steps, and between two invocations the wrapper's
\* callback (_on_backoff, which only passes) and sleep.
Fetch ==
    \/ BodyEnter
    \/ Pace
    \/ \E w \in 0..Horizon : Admit(w)
    \/ \E ua \in UserAgents : \E proxy \in Proxies : DrawIdentity(ua, proxy)
    \/ \E s \in Statuses : Request(s)
    \/ \E k \in TransportFailures : RequestFails(k)
    \/ StatusSleep
    \/ Callback(TRUE)
    \/ \E j \in 0..jitter : BackoffSleep(j)

\* ------------------------------------------------- the identity providers
\* An environment variable is unset, or holds a text: the empty text, a
\* JSON list, some other JSON value, or a text that is no JSON.  parts is
\* what the text is made of: the elements of the JSON list, else the pieces
\* between the commas.
EnvVar(kind, parts) == [kind |-> kind, parts |-> parts]
Unset == EnvVar("unset", <<>>)
EnvValues ==
    { Unset,
      EnvVar("empty", <<>>),
      EnvVar("json_list", <<>>),
      EnvVar("json_list", <<" ", " ua1 ">>),
      EnvVar("json_other", <<"{\"a\": 1}">>),
      EnvVar("text", <<"ua2", "", " ua1 ">>),
      EnvVar("text", <<" ", "">>) }
ProxyEnvValues ==
    { Unset,
      EnvVar("json_list", <<"", " ">>),
      EnvVar("text", <<"proxy1", " proxy2 ">>) }
\* The user-agent file: missing, there but unreadable, or a list of lines
UaFile(state, lines) == [state |-> state, lines |-> lines]
UaFiles ==
    { UaFile("missing", <<>>),
      UaFile("unreadable", <<"ua3">>),
      UaFile("lines", <<>>),
      UaFile("lines", <<" ", "">>),
      UaFile("lines", <<"ua3 ", "", "ua1">>) }
DefaultUA == "Mozilla/5.0"
NoProxy == [http |-> "", https |-> ""]      \* None as a proxy

\* str.strip() on the texts used here
Strip(x) ==
    CASE x = " " -> ""
      [] x = " ua1 " -> "ua1"
      [] x = "ua3 " -> "ua3"
      [] x = " proxy2 " -> "proxy2"
      [] OTHER -> x

\* [x.strip() for x in xs if x.strip()]
Stripped(xs) == SelectSeq([i \in DOMAIN xs |-> Strip(xs[i])], LAMBDA x : x # "")

\* _env_list(name): [] when the variable is unset or empty; the stripped
\* non-blank elements of a JSON list; else (not JSON, or JSON that is no
\* list) the stripped non-blank pieces between commas.
EnvList(v) ==
    IF v.kind \in {"unset", "empty"} THEN <<>> ELSE Stripped(v.parts)

\* UserAgentProvider.__init__: every env key extends the list; the file is
\* read only `if not self._ua_list and os.path.exists(file_path)`, and a
\* failure to read it is passed over; the built-in user agent is the list
\* when it is still empty.
FromEnv(cfg) == EnvList(cfg.ua_env[1]) \o EnvList(cfg.ua_env[2])
FromFile(cfg, sofar) ==
    IF sofar = <<>> /\ cfg.ua_file.state # "missing"
    THEN IF cfg.ua_file.state = "unreadable" THEN <<>>
         ELSE Stripped(cfg.ua_file.lines)
    ELSE sofar
\* (faulty variant: no built-in user agent)
WithDefaultOmitted(sofar) == sofar
WithDefault(sofar) == IF sofar = <<>> THEN <<DefaultUA>> ELSE sofar
UserAgentList(cfg) == WithDefault(FromFile(cfg, FromEnv(cfg)))

\* ProxyProvider.__init__: one {"http": raw, "https": raw} per non-empty raw
Proxy(raw) == [http |-> raw, https |-> raw]
ProxyList(cfg) ==
    LET raws == SelectSeq(EnvList(cfg.proxy_env), LAMBDA r : r # "")
    IN [i \in DOMAIN raws |-> Proxy(raws[i])]

Range(xs) == {xs[i] : i \in DOMAIN xs}

\* random.choice(self._ua_list)
UaChoices == Range(_ua_list)
\* `if not self._proxies: return None`, else random.choice(self._proxies)
\* (faulty variant: no proxy is one of the choices even when there are some)
ProxyChoicesWithNone == Range(_proxies) \cup {NoProxy}
ProxyChoices == IF _proxies = <<>> THEN {NoProxy} ELSE Range(_proxies)

\* The headers a caller may pass.  None and {} are both the empty mapping:
\* `if headers:` treats them alike.
HeaderNames == {"User-Agent", "Accept"}
CallerHeaders ==
    UNION {[names -> {"from-caller"}] : names \in SUBSET HeaderNames}

\* d.update(e): the keys of both, e's value where both have the key
\* (faulty variant: d's value is kept)
UpdateKeepingOld(d, e) ==
    [k \in DOMAIN d \cup DOMAIN e |-> IF k \in DOMAIN d THEN d[k] ELSE e[k]]
Update(d, e) ==
    [k \in DOMAIN d \cup DOMAIN e |-> IF k \in DOMAIN e THEN e[k] ELSE d[k]]

\* req_headers = {"User-Agent": ua}; if headers: req_headers.update(headers)
ReqHeaders(ua, headers) == Update([k \in {"User-Agent"} |-> ua], headers)

NoIdentity == [ua |-> "", proxy |-> NoProxy]
NoRequest == [caller |-> <<>>, caller_after |-> <<>>, headers |-> <<>>,
              proxies |-> NoProxy, ua |-> ""]

\* _UA_PROVIDER = UserAgentProvider()
LoadUserAgents ==
    /\ UNCHANGED outsideIdentity
    /\ loaded = "none"
    /\ _ua_list' = UserAgentList(config)
    /\ loaded' = "user_agents"
    /\ UNCHANGED <<config, _proxies, idpc, drawn, sent, n_sent>>

\* _PROXY_PROVIDER = ProxyProvider()
LoadProxies ==
    /\ UNCHANGED outsideIdentity
    /\ loaded = "user_agents"
    /\ _proxies' = ProxyList(config)
    /\ loaded' = "ready"
    /\ UNCHANGED <<config, _ua_list, idpc, drawn, sent, n_sent>>

\* In thread c: ua = _UA_PROVIDER.random(); proxy = _PROXY_PROVIDER.random()
Draw(c, ua, proxy) ==
    /\ UNCHANGED outsideIdentity
    /\ loaded = "ready"
    /\ idpc[c] = "draw"
    /\ n_sent < MaxSends
    /\ ua \in UaChoices /\ proxy \in ProxyChoices
    /\ drawn' = [drawn EXCEPT ![c] = [ua |-> ua, proxy |-> proxy]]
    /\ sent' = [sent EXCEPT ![c] = NoRequest]
    /\ idpc' = [idpc EXCEPT ![c] = "send"]
    /\ UNCHANGED <<config, loaded, pools, n_sent>>

\* In thread c, for a call that was given `headers`: the outgoing headers
\* are built and sess.request(headers=req_headers, proxies=proxy) is made.
Send(c, headers) ==
    /\ UNCHANGED outsideIdentity
    /\ idpc[c] = "send"
    /\ sent' = [sent EXCEPT ![c] =
                  [caller |-> headers, caller_after |-> headers,
                   headers |-> ReqHeaders(drawn[c].ua, headers),
                   proxies |-> drawn[c].proxy, ua |-> drawn[c].ua]]
    /\ drawn' = [drawn EXCEPT ![c] = NoIdentity]
    /\ n_sent' = n_sent + 1
    /\ idpc' = [idpc EXCEPT ![c] = "draw"]
    /\ UNCHANGED <<config, loaded, pools>>

Identity ==
    \/ LoadUserAgents
    \/ LoadProxies
    \/ \E c \in Callers :
          \/ \E ua \in UaChoices : \E proxy \in ProxyChoices : Draw(c, ua, proxy)
          \/ \E headers \in CallerHeaders : Send(c, headers)

\* the state before start-up, with the environment cfg
NotLoaded(cfg) ==
    /\ config = cfg
    /\ loaded = "none" /\ _ua_list = <<>> /\ _proxies = <<>>
    /\ idpc = [c \in Callers |-> "draw"]
    /\ drawn = [c \in Callers |-> NoIdentity]
    /\ sent = [c \in Callers |-> NoRequest]
    /\ n_sent = 0

Config(e1, e2, f, p) == [ua_env |-> <<e1, e2>>, ua_file |-> f, proxy_env |-> p]
NoIdentityUse == NotLoaded(Config(Unset, Unset, UaFile("missing", <<>>), Unset))

\* ------------------------------------- concurrent calls of the decorated fetch
\* Each thread calls the decorated _request_with_anti_scrape.  The wrapper's
\* attempt and current_delay (retry.py 41-42) and the body's attempt
\* (anti_scrape.py 193) are local variables, so every invocation has a frame
\* of its own; _BUCKET is a module global, shared by all of them.
MaxInvocations == 2

\* The frame a thread's invocation reads and writes (faulty variant: one
\* frame for all threads, as module-level counters would be)
FrameShared(c) == 1
FrameOf(c) == c

Frame(c) == frames[FrameOf(c)]

\* no invocation in progress
NoFrame == [tpc |-> "idle", attempt |-> 0, current_delay |-> 0, req_attempt |-> 0]

\* wrapper(*args, **kwargs): current_delay = delay; attempt = 1; first
\* invocation of the function: attempt = 0
FreshFrame == [tpc |-> "top", attempt |-> 1, current_delay |-> delay, req_attempt |-> 0]

ThreadEnter(c) ==
    /\ Frame(c).tpc = "idle"
    /\ Len(ended[c]) < MaxInvocations
    /\ frames' = [frames EXCEPT ![FrameOf(c)] = FreshFrame]
    /\ UNCHANGED <<ended, tokens>>

\* Top of `while True`: attempt += 1; random_page_delay(); _BUCKET.consume(1.0)
\* returning after a wait of w
ThreadAdmit(c, w) ==
    /\ Frame(c).tpc = "top"
    /\ LET t == Min(capacity, tokens + w * rate) IN
        /\ Enough(t, 1)
        /\ tokens' = t - 1
    /\ frames' = [frames EXCEPT ![FrameOf(c)] =
                    [@ EXCEPT !.tpc = "request", !.req_attempt = @ + 1]]
    /\ UNCHANGED ended

\* the invocation is over: its frame is gone
ThreadEnds(c, how) ==
    /\ frames' = [frames EXCEPT ![FrameOf(c)] = NoFrame]
    /\ ended' = [ended EXCEPT ![c] = Append(@, how)]

\* sess.request(...) answers s: another status is returned through the
\* wrapper; an anti-bot status raises (not caught by the wrapper) once the
\* budget is spent, and is slept over and retried before that.
ThreadRequest(c, s) ==
    /\ Frame(c).tpc = "request"
    /\ IF ~IsAntiBot(s)
       THEN ThreadEnds(c, "returned")
       ELSE IF BudgetExceeded(Frame(c).req_attempt, status_retries)
       THEN ThreadEnds(c, "raised")
       ELSE /\ frames' = [frames EXCEPT ![FrameOf(c)] = [@ EXCEPT !.tpc = "top"]]
            /\ UNCHANGED ended
    /\ UNCHANGED tokens

\* sess.request(...) raises a failure the wrapper catches: on the last try it
\* is raised again; before that the wrapper sleeps, multiplies current_delay,
\* counts the attempt and invokes the function again (attempt = 0).
ThreadRequestFails(c) ==
    /\ Frame(c).tpc = "request"
    /\ IF Frame(c).attempt = tries
       THEN ThreadEnds(c, "raised")
       ELSE /\ frames' = [frames EXCEPT ![FrameOf(c)] =
                    [tpc |-> "top",
                     attempt |-> @.attempt + 1,
                     current_delay |-> @.current_delay * backoff,
                     req_attempt |-> 0]]
            /\ UNCHANGED ended
    /\ UNCHANGED tokens

Thread(c) ==
    \/ ThreadEnter(c)
    \/ \E w \in 0..MaxTime : ThreadAdmit(c, w)
    \/ \E s \in {200, 429} : ThreadRequest(c, s)
    \/ ThreadRequestFails(c)

Threads ==
    /\ \E c \in Callers : Thread(c)
    /\ UNCHANGED <<rate, capacity, updated_at, lock, now, frameVars, histVars>>
    /\ UNCHANGED <<retryAll, fetchAll, identityAll, extractAll, servicesAll>>

\* no thread calls the fetch
NoThreads ==
    /\ frames = [c \in Callers |-> NoFrame]
    /\ ended = [c \in Callers |-> <<>>]

\* ----------------------------------------------------- parse_json_or_html
\* An optional value (None, a missing attribute, a missing argument) is the
\* empty sequence, a present value v is <<v>>.
None == <<>>
Some(v) == <<v>>

\* response.headers.get("Content-Type"): absent, or one of these texts
ContentTypes ==
    {None, Some("text/html"), Some("application/json"),
     Some("Application/JSON; charset=UTF-8"), Some("text/json"),
     Some("text/html; charset=JSON")}

\* (... or "").lower()
Lower(ctype) ==
    IF ctype = None THEN ""
    ELSE CASE ctype[1] = "Application/JSON; charset=UTF-8" -> "application/json; charset=utf-8"
           [] ctype[1] = "text/html; charset=JSON" -> "text/html; charset=json"
           [] OTHER -> ctype[1]

\* "application/json" in ctype or "text/json" in ctype or "charset=json" in ctype
\* (faulty variant: the header compared as sent, with the one exact text)
IsJsonTypeExact(ctype) == ctype = Some("application/json")
IsJsonType(ctype) ==
    Lower(ctype) \in {"application/json", "application/json; charset=utf-8",
                      "text/json", "text/html; charset=json"}

\* What response.json() gives: a decoded value, or a failure to decode.
\* Decoded values are null, numbers, lists, and objects with or without an
\* `items` and a `results` member.
JsonNull == [t |-> "null"]
JsonNumber(n) == [t |-> "number", v |-> n]
JsonList(xs) == [t |-> "list", v |-> xs]
JsonObject(i, r) == [t |-> "dict", items |-> i, results |-> r]
Undecodable == [t |-> "undecodable"]

JsonObjects ==
    {JsonObject(i, r) :
        i \in {None, Some(JsonNull), Some(JsonList(<<>>)), Some(JsonList(<<"i1">>)),
               Some(JsonNumber(0)), Some(JsonNumber(7))},
        r \in {None, Some(JsonNull), Some(JsonList(<<>>)), Some(JsonList(<<"r1">>))}}
JsonValues ==
    JsonObjects \cup {JsonList(<<>>), JsonList(<<"e1", "e2">>), JsonNumber(7), JsonNull}

\* bool(x) of a decoded value
Truthy(j) ==
    CASE j.t = "null" -> FALSE
      [] j.t = "number" -> j.v # 0
      [] j.t = "list" -> j.v # <<>>
      [] OTHER -> TRUE

\* data.get(key): the member, or None (null) when it is missing
DictGet(m) == IF m = None THEN JsonNull ELSE m[1]

\* data.get("items") or data.get("results") or []
\* (faulty variant: the first member that is there at all)
ItemsOrResultsIfPresent(data) ==
    IF data.items # None THEN data.items[1]
    ELSE IF data.results # None THEN data.results[1]
    ELSE JsonList(<<>>)
ItemsOrResults(data) ==
    IF Truthy(DictGet(data.items)) THEN DictGet(data.items)
    ELSE IF Truthy(DictGet(data.results)) THEN DictGet(data.results)
    ELSE JsonList(<<>>)

\* lines 291-296
JsonItems(data) ==
    IF data.t = "dict" THEN ItemsOrResults(data)
    ELSE IF data.t = "list" THEN data
    ELSE JsonList(<<>>)

\* The markup tree.  An element has a tag name, a src and an href attribute
\* (each optional) and a text; a container node has attributes of its own
\* and its descendants in document order.
El(name, src, href, text) == [name |-> name, src |-> src, href |-> href, text |-> text]
Elements ==
    {El("img", Some("s.png"), None, ""), El("img", Some(""), Some("/i"), ""),
     El("img", Some(""), None, ""), El("img", None, None, ""),
     El("a", None, Some("/x"), " Link "), El("a", None, Some(""), " Link "),
     El("a", None, None, "Top"), El("span", None, None, " Text ")}
Descendants ==
    {<<>>} \cup {<<e>> : e \in Elements}
           \cup {<<El("a", None, Some(""), ""), El("a", None, Some("/x"), " Link ")>>,
                 <<El("span", None, None, " Text "), El("img", Some("s.png"), None, "")>>}
Containers ==
    {[src |-> None, href |-> None, els |-> d] : d \in Descendants}
    \cup {[src |-> None, href |-> Some("/c"), els |-> d] :
            d \in {<<>>, <<El("a", None, Some("/x"), " Link ")>>}}

\* the containers `.item` matches, in document order
MaxNodes == 2
RECURSIVE NodeLists(_)
NodeLists(n) ==
    IF n = 0 THEN {<<>>}
    ELSE NodeLists(n - 1) \cup
         {Append(ns, c) : ns \in {x \in NodeLists(n - 1) : Len(x) = n - 1}, c \in Containers}

\* soup.select(list_selector)
Select(nodes, list_selector) == IF list_selector = ".item" THEN nodes ELSE <<>>

\* selector.strip()
StripSelector(x) ==
    CASE x = " attr: src " -> "attr: src"
      [] x = " img " -> "img"
      [] OTHER -> x

\* sel.startswith("attr:")
StartsWithAttr(sel) == sel \in {"attr:href", "attr: src", "attr:data-id"}

\* sel.split(":", 1)[1].strip()
AttrName(sel) ==
    CASE sel = "attr:href" -> "href"
      [] sel = "attr: src" -> "src"
      [] sel = "attr:data-id" -> "data-id"

\* node.get(name)
Get(node, name) ==
    CASE name = "href" -> node.href
      [] name = "src" -> node.src
      [] OTHER -> None

\* node.select_one(sel): the first descendant with that tag name
SelectOne(node, sel) ==
    LET hits == SelectSeq(node.els, LAMBDA e : e.name = sel)
    IN IF hits = <<>> THEN None ELSE Some(hits[1])

\* el.get_text(strip=True)
GetText(el) ==
    CASE el.text = " Link " -> "Link"
      [] el.text = " Text " -> "Text"
      [] OTHER -> el.text

\* el.name == "img" and el.get("src")
\* (faulty variant: any src attribute, empty or not)
IsImgHavingSrc(el) == el.name = "img" /\ el.src # None
IsImgWithSrc(el) == el.name = "img" /\ el.src # None /\ el.src # Some("")

\* el.get("href") or el.get_text(strip=True)
HrefOrText(el) ==
    IF el.href # None /\ el.href # Some("") THEN el.href ELSE Some(GetText(el))

\* lines 309-323: the value of one field of one container
FieldValue(node, selector) ==
    LET sel == StripSelector(selector) IN
    IF StartsWithAttr(sel) THEN Get(node, AttrName(sel))
    ELSE LET el == SelectOne(node, sel) IN
         IF el = None THEN None
         ELSE IF IsImgWithSrc(el[1]) THEN el[1].src
         ELSE IF el[1].href # None THEN HrefOrText(el[1])
         ELSE Some(GetText(el[1]))

\* `if list_selector and item_schema`
\* (faulty variant: a schema of no fields counts)
HasSelectorAndAnySchema(list_selector, item_schema) ==
    /\ list_selector # None /\ list_selector # Some("")
    /\ item_schema # None
HasSelectorAndSchema(list_selector, item_schema) ==
    /\ list_selector # None /\ list_selector # Some("")
    /\ item_schema # None /\ DOMAIN item_schema[1] # {}

\* lines 302-324: one obj per node, a value per field of item_schema
HtmlItems(nodes, list_selector, item_schema) ==
    IF HasSelectorAndSchema(list_selector, item_schema)
    THEN LET found == Select(nodes, list_selector[1])
         IN [i \in DOMAIN found |->
                [field \in DOMAIN item_schema[1] |->
                    FieldValue(found[i], item_schema[1][field])]]
    ELSE <<>>

\* parse_json_or_html(response, list_selector=..., item_schema=...)
ParseJsonOrHtml(response, list_selector, item_schema) ==
    IF IsJsonType(response.ctype) /\ response.json # Undecodable
    THEN [source |-> "json", items |-> JsonItems(response.json),
          status_code |-> response.status_code]
    ELSE [source |-> "html",
          items |-> JsonList(HtmlItems(response.nodes, list_selector, item_schema)),
          status_code |-> response.status_code]

\* The responses: a body that decodes (its text holds no markup, or one
\* container), or a body that does not decode and holds any markup.
Responses ==
    [ctype : ContentTypes, status_code : {200, 404},
     json : JsonValues, nodes : {<<>>, <<[src |-> None, href |-> None, els |-> <<>>]>>}]
    \cup
    [ctype : ContentTypes, status_code : {200},
     json : {Undecodable}, nodes : NodeLists(MaxNodes)]

ListSelectors == {None, Some(""), Some(".item"), Some(".missing")}

Schema(fields, e1, e2) == [f \in fields |-> IF f = "link" THEN e1 ELSE e2]
ItemSchemas ==
    {None, Some(Schema({}, "", ""))}
    \cup {Some(Schema({"link"}, e, "")) :
            e \in {"attr:href", " attr: src ", "attr:data-id", "a", " img ", "span"}}
    \cup {Some(Schema({"link", "title"}, "attr:href", "a"))}

NoResult == [source |-> "none", items |-> JsonList(<<>>), status_code |-> 0]
NoExtraction ==
    /\ call = [response |-> [ctype |-> None, status_code |-> 200,
                             json |-> Undecodable, nodes |-> <<>>],
               list_selector |-> None, item_schema |-> None]
    /\ result = NoResult

Extract ==
    /\ result = NoResult
    /\ result' = ParseJsonOrHtml(call.response, call.list_selector, call.item_schema)
    /\ UNCHANGED call
    /\ UNCHANGED <<bucketAll, retryAll, fetchAll, identityAll, threadsAll, servicesAll>>

\* ------------------------------------------- scheduler: run_with_retry
\* run_with_retry(func, max_retries=, base_delay=, max_delay=, jitter=,
\* context=).  `job` holds the arguments, the frame (attempt counts the
\* failures), and the history: the calls of func, the delays slept, and the
\* attributes of the exception that left the function.
MaxRetries == 3
MaxBaseDelay == 2
MaxCeiling == 3

\* context: None, or a dict with or without the two ids
Contexts ==
    {None, Some([run_id |-> None, source_id |-> None]),
     Some([run_id |-> Some("run1"), source_id |-> None]),
     Some([run_id |-> Some("run1"), source_id |-> Some("src1")])}

\* ctx = context or {}; ctx.get(key)
CtxGet(context, key) ==
    IF context = None THEN None
    ELSE IF key = "run_id" THEN context[1].run_id ELSE context[1].source_id

\* an exception as func raised it, and after the two setattr calls
Unmarked == [marked |-> FALSE, run_id |-> None, source_id |-> None]
Marked(context) ==
    [marked |-> TRUE, run_id |-> CtxGet(context, "run_id"),
     source_id |-> CtxGet(context, "source_id")]

\* min(max_delay, base_delay * (2 ** (attempt - 1))) + jitter
\* (faulty variant: without the min)
JobDelayUncapped(a) == job.base_delay * Pow2(a - 1) + job.jitter
JobDelay(a) == Min(job.max_delay, job.base_delay * Pow2(a - 1)) + job.jitter

NewJob(m, b, M, j, ctx) ==
    job = [max_retries |-> m, base_delay |-> b, max_delay |-> M, jitter |-> j,
           context |-> ctx, jpc |-> "call", attempt |-> 0,
           calls |-> 0, slept |-> <<>>, exc |-> Unmarked]
NoJob == NewJob(0, 0, 0, 0, None)

\* `return func()`: func returns, or raises an Exception.  On a failure
\* attempt += 1; `if attempt >= max_retries` marks the exception with run_id
\* and source_id and raises it again; otherwise the sleep is next.
CallFunc(ok) ==
    /\ job.jpc = "call"
    /\ job' = IF ok
              THEN [job EXCEPT !.calls = @ + 1, !.jpc = "returned"]
              ELSE IF job.attempt + 1 >= job.max_retries
              THEN [job EXCEPT !.calls = @ + 1, !.attempt = @ + 1,
                               !.jpc = "raised", !.exc = Marked(job.context)]
              ELSE [job EXCEPT !.calls = @ + 1, !.attempt = @ + 1, !.jpc = "sleep"]

\* delay = ...; time.sleep(delay); back to the top of `while True`
JobSleep ==
    /\ job.jpc = "sleep"
    /\ job' = [job EXCEPT !.slept = Append(@, JobDelay(job.attempt)), !.jpc = "call"]

RunWithRetry ==
    /\ (\E ok \in BOOLEAN : CallFunc(ok)) \/ JobSleep
    /\ UNCHANGED <<bucketAll, retryAll, fetchAll, identityAll, threadsAll, extractAll, db>>

\* ------------------------------------------- MySQLCRUD.call_procedure
\* call_procedure(procedure_name, connection, args).  `db` holds the
\* arguments (whether a connection was passed, and the rows the procedure
\* gives), where control is, the exception on its way out, the calls made on
\* the connection and the cursor in order, and what the caller got.  Each of
\* cursor(), callproc(), the reading of the results and commit() may raise a
\* mysql.connector Error or another exception; rollback() and the two
\* close() calls complete.
MaxRows == 2
Rows == {"row1", "row2"}
RECURSIVE RowLists(_)
RowLists(n) ==
    IF n = 0 THEN {<<>>}
    ELSE RowLists(n - 1) \cup
         {Append(rs, r) : rs \in {x \in RowLists(n - 1) : Len(x) = n - 1}, r \in Rows}

Replies == {"ok", "Error", "Other"}

NewDbCall(given, rows) ==
    db = [connection |-> given, rows |-> rows, dpc |-> "entry",
          cursor |-> FALSE, pending |-> "none", ops |-> <<>>,
          outcome |-> "none", returned |-> <<>>]
NoDb == NewDbCall(FALSE, <<>>)

\* `if connection is None: raise Exception("Connection is None")`; cursor = None
DbEnter ==
    /\ db.dpc = "entry"
    /\ db' = IF db.connection
             THEN [db EXCEPT !.dpc = "cursor"]
             ELSE [db EXCEPT !.dpc = "raised", !.outcome = "Exception"]

\* where control goes from inside the try block when a call raises:
\* `except Error` for a database Error, straight to `finally` for another
\* exception
Handler(reply) == IF reply = "Error" THEN "except" ELSE "finally"

\* one call made inside the try block, named op, answered by reply
Try(op, reply, next) ==
    [db EXCEPT !.ops = Append(@, op),
               !.pending = IF reply = "ok" THEN "none" ELSE reply,
               !.dpc = IF reply = "ok" THEN next ELSE Handler(reply)]

\* cursor = connection.cursor(dictionary=True)
OpenCursor(reply) ==
    /\ db.dpc = "cursor"
    /\ db' = [Try("cursor", reply, "callproc") EXCEPT !.cursor = (reply = "ok")]

\* cursor.callproc(procedure_name, args)
CallProc(reply) ==
    /\ db.dpc = "callproc"
    /\ db' = Try("callproc", reply, "results")

\* for result in cursor.stored_results(): for row in result.fetchall(): ...
StoredResults(reply) ==
    /\ db.dpc = "results"
    /\ db' = Try("stored_results", reply, "commit")

\* `if not results: return None`;
\* `return results if len(results) > 1 else results[0]`
ReturnValue(rows) ==
    IF rows = <<>> THEN None
    ELSE IF Len(rows) > 1 THEN Some(rows) ELSE Some(<<rows[1]>>)

\* connection.commit(), and the return statement after it
Commit(reply) ==
    /\ db.dpc = "commit"
    /\ db' = [Try("commit", reply, "finally") EXCEPT
                 !.returned = IF reply = "ok" THEN ReturnValue(db.rows) ELSE @]

\* where control goes after the except block: `raise` passes through the
\* finally block  (faulty variant: it leaves the method at once)
AfterRollbackLeaves == "leave"
AfterRollback == "finally"

\* except Error: `if connection: connection.rollback()`; raise
Rollback ==
    /\ db.dpc = "except"
    /\ db' = [db EXCEPT !.ops = Append(@, "rollback"), !.dpc = AfterRollback]

\* finally: `if cursor: cursor.close()`
CloseCursor ==
    /\ db.dpc = "finally"
    /\ db' = [db EXCEPT !.ops = IF db.cursor THEN Append(@, "cursor.close") ELSE @,
                        !.dpc = "close"]

\* finally: `if connection: connection.close()`
CloseConnection ==
    /\ db.dpc = "close"
    /\ db' = [db EXCEPT !.ops = Append(@, "connection.close"), !.dpc = "leave"]

\* control leaves the method: the return value, or the exception, reaches
\* the caller
Leave ==
    /\ db.dpc = "leave"
    /\ db' = [db EXCEPT !.dpc = IF db.pending = "none" THEN "returned" ELSE "raised",
                        !.outcome = IF db.pending = "none" THEN "result" ELSE db.pending]

CallProcedure ==
    /\ \/ DbEnter
       \/ \E reply \in Replies :
            OpenCursor(reply) \/ CallProc(reply) \/ StoredResults(reply) \/ Commit(reply)
       \/ Rollback
       \/ CloseCursor
       \/ CloseConnection
       \/ Leave
    /\ UNCHANGED <<bucketAll, retryAll, fetchAll, identityAll, threadsAll, extractAll, job>>

\* ------------------------------------------------------- the specifications
\* Spec: one bucket, created with any rate and burst, used by the threads.
Init ==
    /\ \E r \in (-1)..MaxRate : \E b \in 0..MaxBurst : NewBucket(r, b)
    /\ NoWrapperCall
    /\ NoFetch
    /\ NoIdentityUse
    /\ NoThreads /\ NoExtraction /\ NoJob /\ NoDb

Next == Tick \/ \E c \in Callers : Consume(c)

Spec == Init /\ [][Next]_vars

\* Unbounded time and fair scheduling: the clock keeps advancing, a thread
\* that can take its next step takes it, and a thread waiting for the Lock
\* gets it if it is free again and again.  The bucket refills (rate > 0).
LiveInit ==
    /\ \E b \in {0, MaxBurst} : NewBucket(MaxRate, b)
    /\ NoWrapperCall
    /\ NoFetch
    /\ NoIdentityUse
    /\ NoThreads /\ NoExtraction /\ NoJob /\ NoDb

LiveConsume(c) ==
    \/ \E k \in 0..MaxCost : Call(c, k)
    \/ Acquire(c)
    \/ RefillAndTest(c)
    \/ DeductUncounted(c)
    \/ Wake(c)

LiveNext == TickWindow \/ \E c \in Callers : LiveConsume(c)

LiveSpec ==
    /\ LiveInit
    /\ [][LiveNext]_vars
    /\ WF_vars(TickWindow)
    /\ \A c \in Callers :
        /\ SF_vars(Acquire(c))
        /\ WF_vars(RefillAndTest(c) \/ DeductUncounted(c) \/ Wake(c))

\* RetrySpec: one call of a wrapper made by retry(...), around a function
\* whose every invocation may return or raise a failure of any kind.
RetryInit ==
    /\ NewBucket(1, 1) /\ NewWrapperCall /\ NoFetch /\ NoIdentityUse
    /\ NoThreads /\ NoExtraction /\ NoJob /\ NoDb

RetrySpec == RetryInit /\ [][Wrapper]_vars

\* FetchSpec: one call of get() with any status_retries and either no
\* timeout or one of the caller's, against a transport that may answer any
\* status or fail, through a bucket that refills or does not, of the
\* smallest or the largest burst.
FetchInit ==
    /\ NoIdentityUse /\ NoThreads /\ NoExtraction /\ NoJob /\ NoDb
    /\ \E r \in {0, MaxRate} : \E b \in {1, MaxBurst} : NewBucket(r, b)
    /\ \E k \in 0..MaxStatusRetries : \E t \in {NoTimeout, CallerTimeout} :
          NewFetch(k, t)

FetchSpec == FetchInit /\ [][Fetch]_vars

\* IdentitySpec: start-up under any environment, then the threads drawing
\* identities and sending requests with them.
IdentityInit ==
    /\ NewBucket(1, 1) /\ NoWrapperCall /\ NoFetch /\ NoThreads /\ NoExtraction /\ NoJob /\ NoDb
    /\ \E e1 \in EnvValues : \E e2 \in {Unset, EnvVar("text", <<"ua2", "", " ua1 ">>)} :
       \E f \in UaFiles : \E p \in ProxyEnvValues :
          NotLoaded(Config(e1, e2, f, p))

IdentitySpec == IdentityInit /\ [][Identity]_vars

\* ThreadsSpec: the threads each call the decorated fetch, one call after
\* another, against a transport that may answer a good or an anti-bot
\* status or fail, sharing one bucket.
ThreadsInit ==
    /\ NewBucket(1, 1) /\ NoIdentityUse /\ NoThreads /\ NoExtraction /\ NoJob /\ NoDb
    /\ \E k \in 0..MaxStatusRetries : NewFetch(k, NoTimeout)

ThreadsSpec == ThreadsInit /\ [][Threads]_vars

\* ExtractSpec: one call of parse_json_or_html on any response, list
\* selector and item schema.
ExtractInit ==
    /\ NewBucket(1, 1) /\ NoWrapperCall /\ NoFetch /\ NoIdentityUse /\ NoThreads
    /\ NoJob /\ NoDb
    /\ call \in [response : Responses, list_selector : ListSelectors,
                 item_schema : ItemSchemas]
    /\ result = NoResult

ExtractSpec == ExtractInit /\ [][Extract]_vars

\* no other component is in use
Parked ==
    /\ NewBucket(1, 1) /\ NoWrapperCall /\ NoFetch /\ NoIdentityUse
    /\ NoThreads /\ NoExtraction

\* JobSpec: one call of run_with_retry with any max_retries, base delay,
\* ceiling, jitter and context, around a func whose every call may return
\* or raise.
JobInit ==
    /\ Parked /\ NoDb
    /\ \E m \in 0..MaxRetries : \E b \in 1..MaxBaseDelay : \E M \in 1..MaxCeiling :
       \E j \in 0..MaxJitter : \E ctx \in Contexts : NewJob(m, b, M, j, ctx)

JobSpec == JobInit /\ [][RunWithRetry]_vars

\* DbSpec: one call of call_procedure with or without a connection, on a
\* procedure giving any rows, each database call of which may raise.
DbInit ==
    /\ Parked /\ NoJob
    /\ \E given \in BOOLEAN : \E rows \in RowLists(MaxRows) : NewDbCall(given, rows)

DbSpec == DbInit /\ [][CallProcedure]_vars

\* ------------------------------------------------------------------ claims
InLock(c) == pc[c] \in {"refill", "deduct"}
InCall(c) == pc[c] \in {"acquire", "refill", "deduct", "sleep"}

\* C1: in every reachable state of the bucket, whatever the interleaving of
\* consume calls and the passage of time, 0 <= tokens <= capacity.
TokensWithinBounds == 0 <= tokens /\ tokens <= capacity

\* C1 witness: a refill that the cap cut short (tokens were lost to the cap)
\* after tokens had been taken.
RefillHitCapacity ==
    /\ admitted > 0
    /\ tokens = capacity
    /\ admitted + tokens < capacity + rate * updated_at

\* C2: at most one thread is inside the locked region, it is the holder of
\* the Lock, and the count a thread is about to deduct from is the count it
\* tested.
CriticalSectionExclusive ==
    /\ \A c, d \in Callers : InLock(c) /\ InLock(d) => c = d
    /\ \A c \in Callers : InLock(c) => lock = c
    /\ \A c \in Callers : pc[c] = "deduct" => tokens = tested[c]

\* C2 witness: one thread about to deduct while the other waits for the Lock.
OneInsideOneBlocked ==
    \E c, d \in Callers : pc[c] = "deduct" /\ pc[d] = "acquire" /\ lock = c

\* C3: the total cost of the calls that have returned by time now is at most
\* initialTokens + rate * now, with initialTokens = capacity.
Conservation == admitted <= capacity + rate * now

\* C3 witness: more than the initial tokens admitted, and the bound is tight.
AdmittedBeyondBurst ==
    /\ admitted > capacity
    /\ admitted = capacity + rate * now

\* C4: a returned consume(cost) with cost > 0 has deducted cost, once, from a
\* refilled count that was >= cost; a thread that found tokens < cost has
\* deducted nothing and is sleeping, not returned.
DeductOnceWhenEnough ==
    \A c \in Callers :
        /\ pc[c] = "returned" /\ cost[c] > 0 => deducted[c] = cost[c]
        /\ pc[c] = "deduct" => tested[c] >= cost[c] /\ deducted[c] = 0
        /\ pc[c] \in {"acquire", "refill", "sleep"} => deducted[c] = 0
        /\ pc[c] = "sleep" => needed[c] > 0 /\ needed[c] <= cost[c]

\* C4 witness: a call that first found too few tokens, slept, and then
\* returned having deducted its cost.
ReturnedAfterWaiting ==
    \E c \in Callers :
        pc[c] = "returned" /\ cost[c] > 0 /\ nsleeps[c] > 0 /\ deducted[c] = cost[c]

\* C5: with rate > 0 and 0 < cost <= capacity every consume call eventually
\* returns, under fair scheduling and advancing time.
EveryCallReturns ==
    \A c \in Callers :
        (InCall(c) /\ rate > 0 /\ cost[c] <= capacity) ~> (pc[c] = "returned")

\* C5 witness: a call returned after sleeping twice (the tokens it waited for
\* were taken by the other thread during its first sleep).
ReturnedAfterSecondSleep ==
    \E c \in Callers :
        pc[c] = "returned" /\ rate > 0 /\ cost[c] > 0 /\ nsleeps[c] = 2

\* C6: a sleeping thread does not hold the Lock.
SleepOutsideLock == \A c \in Callers : pc[c] = "sleep" => lock # c

\* C6 witness: one thread sleeps while the other is inside the locked
\* region with enough tokens, about to be admitted.
AdmittedWhileOtherSleeps ==
    \E c, d \in Callers : pc[c] = "sleep" /\ pc[d] = "deduct" /\ lock = d

\* C7: consume(cost) with cost <= 0 returns in the call step itself and
\* leaves the Lock, tokens and updated_at as they were.
NonPositiveCostIsNoOp ==
    [][\A c \in Callers : \A k \in Costs :
          k <= 0 /\ Call(c, k) =>
              /\ pc'[c] = "returned"
              /\ tokens' = tokens /\ updated_at' = updated_at /\ lock' = lock]_vars

\* C7 witness: a no-op call has returned in a state in which a refill would
\* have changed tokens and updated_at.
NoOpReturnedBeforeRefill ==
    \E c \in Callers :
        /\ pc[c] = "returned" /\ cost[c] <= 0 /\ ncalls > 0
        /\ RefilledTokens # tokens /\ updated_at # now

\* ------------------------------------------------------ claims on retry()
Invocations == SelectSeq(log, LAMBDA e : e.ev = "invoke")
Sleeps == SelectSeq(log, LAMBDA e : e.ev = "sleep")
Finished == wpc \in {"returned", "raised"}

\* C8: the wrapper invokes the operation at least once and at most tries
\* times, invokes nothing after an invocation that succeeded, and returns
\* the result of that invocation.
InvocationsBounded ==
    /\ Len(Invocations) <= tries
    /\ Finished => Len(Invocations) >= 1
    /\ \A i \in 1..Len(log) :
          log[i].ev = "invoke" /\ log[i].exc = NoExc =>
              /\ i = Len(log)
              /\ wpc = "returned"
              /\ outcome = Exc("result", log[i].n)
    /\ wpc = "returned" => Len(log) >= 1 /\ log[Len(log)].exc = NoExc

\* C8 witness: the last permitted invocation succeeded after failures.
SucceededOnLastTry ==
    wpc = "returned" /\ tries >= 2 /\ Len(Invocations) = tries

OnlyRetryableFailures ==
    \A i \in 1..Len(Invocations) : Invocations[i].exc.kind \in exceptions

\* C9: when every invocation fails with a retryable failure and tries = n,
\* there are exactly n invocations and n - 1 sleeps, and the failure the
\* caller gets is the one the n-th invocation raised.
ExhaustionRaisesLast ==
    wpc = "raised" /\ OnlyRetryableFailures =>
        /\ Len(Invocations) = tries
        /\ Len(Sleeps) = tries - 1
        /\ outcome = Invocations[tries].exc
        /\ outcome.n = tries

\* C9 witness: tries >= 2 used up by retryable failures.
TriesExhausted ==
    wpc = "raised" /\ OnlyRetryableFailures /\ tries >= 2 /\ Len(Sleeps) >= 1

\* C10: a failure whose kind is not in `exceptions` is the last thing the
\* wrapper does, on any attempt: the caller gets that failure, and no
\* callback, sleep or invocation follows it.
NonRetryablePropagates ==
    \A i \in 1..Len(log) :
        log[i].ev = "invoke" /\ log[i].exc # NoExc /\ log[i].exc.kind \notin exceptions =>
            /\ i = Len(log)
            /\ wpc = "raised"
            /\ outcome = log[i].exc

\* C10 witness: a non-retryable failure on a later attempt, after a sleep.
NonRetryableOnLaterAttempt ==
    /\ wpc = "raised" /\ outcome.kind \notin exceptions
    /\ outcome.n >= 2 /\ Len(Sleeps) >= 1

\* C11: the delays between attempts, jitter left out, never decrease and
\* none exceeds the maximum delay.  retry() takes no maximum delay; the cap
\* is taken as the least one that admits every initial delay, MaxDelay.
DelaysBoundedByMaxDelay ==
    \A i \in 1..Len(Sleeps) :
        /\ Sleeps[i].d <= MaxDelay
        /\ i > 1 => Sleeps[i - 1].d <= Sleeps[i].d

IsCallback(e) == e.ev \in {"backoff", "backoff_failed"}

\* C12: with a callback given, every retryable failure of an attempt that
\* is not the last is followed by one callback carrying that attempt's
\* number and that failure, and then by the sleep, whether the callback
\* returned or raised; the failure of the last attempt is followed by
\* nothing.
CallbackOncePerRetry ==
    on_backoff =>
        \A i \in 1..Len(log) :
            /\ log[i].ev = "invoke" /\ log[i].exc.kind \in exceptions =>
                  IF log[i].n = tries THEN i = Len(log) /\ wpc = "raised"
                  ELSE IF i = Len(log) THEN wpc = "callback"
                  ELSE /\ IsCallback(log[i + 1])
                       /\ log[i + 1].n = log[i].n
                       /\ log[i + 1].exc = log[i].exc
            /\ IsCallback(log[i]) =>
                  /\ i > 1 /\ log[i - 1].ev = "invoke"
                  /\ log[i].n < tries
                  /\ IF i = Len(log) THEN wpc = "sleep"
                     ELSE log[i + 1].ev = "sleep" /\ log[i + 1].n = log[i].n
            /\ log[i].ev = "sleep" => i > 1 /\ IsCallback(log[i - 1])

\* C12 witness: a callback raised, the sleep and the next invocation
\* followed all the same.
CallbackFailedThenRetried ==
    \E i \in 1..Len(log) :
        /\ log[i].ev = "backoff_failed"
        /\ i + 2 <= Len(log)
        /\ log[i + 1].ev = "sleep" /\ log[i + 2].ev = "invoke"

\* ---------------------------------------------------- claims on the fetch
\* C13: with status_retries = k and a transport that has answered 429 every
\* time and never raised, the fetch makes k + 1 status-triggered retries
\* (a status sleep and a new pass each) and no more, never returns, and ends
\* by raising the HTTPError of the last 429, on its (k + 2)-th answer.
StatusBudgetTermination ==
    only_429 /\ n_requests > 0 =>
        /\ Len(status_sleeps) <= status_retries + 1
        /\ n_requests <= status_retries + 2
        /\ wpc # "returned"
        /\ Finished =>
              /\ wpc = "raised" /\ outcome.kind = "HTTPError"
              /\ carried = 429
              /\ Len(status_sleeps) = status_retries + 1
              /\ n_requests = status_retries + 2

\* C13 witness: a budget of at least one used up by 429 answers alone.
BlockedAfterBudget ==
    /\ only_429 /\ wpc = "raised" /\ status_retries >= 1
    /\ Len(status_sleeps) = status_retries + 1

\* C14: in one fetch with status_retries = k the status backoff sleeps
\* number at most k + 1 in all, transport failures between them or not.
StatusSleepsWithinBudget == Len(status_sleeps) <= status_retries + 1

\* C15: a fetch with tries = n and status_retries = k makes at most
\* n * (k + 2) transport calls, and while the bucket refills it can always
\* take its next step until it has returned or raised.
FetchCallsBounded ==
    /\ n_requests <= tries * (status_retries + 2)
    /\ rate > 0 /\ ~Finished => ENABLED Fetch

\* C15 witness: a fetch that ended having made all n * (k + 2) calls, with
\* n >= 2 and k >= 1.
CallsReachedBound ==
    /\ Finished /\ tries >= 2 /\ status_retries >= 1
    /\ n_requests = tries * (status_retries + 2)

\* C16: the steps of a pass of the loop come in the order pacing sleep,
\* admission, identity draw, transport call, one of each; so every transport
\* call has its own pacing sleep, admission of cost 1 and draw before it,
\* and the calls made never outnumber the tokens deducted.
PacedAdmittedDrawnBeforeCall ==
    /\ Len(trail) <= Len(LoopOrder)
    /\ trail = SubSeq(LoopOrder, 1, Len(trail))
    /\ fpc = "request" => Len(trail) = 3
    /\ n_requests <= n_draws /\ n_draws <= admitted /\ admitted <= n_paces
    /\ n_paces <= n_requests + 1
    /\ n_paces = n_requests <=> (n_paces = 0 \/ Len(trail) = 4)

\* C16 witness: the second call of a fetch, made after a block status, with
\* two pacing sleeps, two admissions and two draws behind it.
SecondCallAfterBlock ==
    /\ n_requests = 2 /\ Len(status_sleeps) = 1
    /\ n_paces = 2 /\ admitted = 2 /\ n_draws = 2

\* C17: when the caller of get() gives no timeout, every transport call is
\* made with the default timeout of 15, never with None.
DefaultTimeoutOnEveryCall ==
    kwargs = GetKwargs(NoTimeout) /\ n_requests > 0 => req_timeout = DefaultTimeout

\* C18: an answer whose status is outside {403, 429, 503} ends the fetch:
\* that response is what the caller gets, and no pacing, admission, draw,
\* sleep or transport call follows.
FirstGoodResponseEnds ==
    resp # NoResponse /\ resp \notin AntiBot =>
        /\ wpc = "returned" /\ fpc = "idle"
        /\ outcome.kind = "result"
        /\ carried = resp
        /\ ~ENABLED Fetch

\* C18 witness: a fetch returned a 200 that came after a block status.
ReturnedAfterBlock ==
    wpc = "returned" /\ resp = 200 /\ Len(status_sleeps) >= 1

\* C19 as stated: an answer with an error status outside the block set
\* (404, 500) makes the fetch fail with an HTTP error holding the response;
\* it is not returned.
ErrorStatusRaised ==
    resp >= 400 /\ resp \notin AntiBot =>
        wpc = "raised" /\ outcome.kind = "HTTPError" /\ carried = resp

\* C19, amended: an answer with an error status outside the block set
\* (404, 500) is returned to the caller as the result of the fetch, with no
\* retry and no failure raised.
ErrorStatusReturned ==
    resp >= 400 /\ resp \notin AntiBot =>
        /\ wpc = "returned" /\ outcome.kind = "result"
        /\ carried = resp
        /\ log[Len(log)].ev = "invoke" /\ log[Len(log)].exc = NoExc

\* C19 witness: a fetch has returned a 404, and one a 500.
ErrorStatusHandedBack == wpc = "returned" /\ carried \in {404, 500}

\* C20: a fetch never returns a response with status 403, 429 or 503; when
\* the budget is used up it raises an HTTPError that holds the last
\* response, and the wrapper makes no callback, sleep or invocation after
\* that failure.
BlockedNeverReturned ==
    /\ wpc = "returned" => carried \notin AntiBot
    /\ resp \in AntiBot /\ fpc = "idle" =>
          /\ req_attempt = status_retries + 2
          /\ wpc = "raised" /\ outcome = Exc("HTTPError", attempt)
          /\ carried = resp
          /\ log[Len(log)] = Ev("invoke", attempt, outcome, 0, 0, CallKwargs)

\* C20 witness: the budget ran out on an attempt of the wrapper that was
\* not its last, after a transport failure, and the fetch raised.
BlockedOnLaterAttempt ==
    /\ wpc = "raised" /\ outcome.kind = "HTTPError"
    /\ carried \in AntiBot
    /\ 1 < attempt /\ attempt < tries

\* the first i status backoff delays: 2^0, 2^1, ..., 2^(i-1)
PowersOfTwo(i) == [j \in 1..i |-> 2^(j - 1)]

\* every answer of this fetch so far was a block status and the transport
\* has not raised
AllBlocked ==
    /\ attempt = 1 /\ wpc # "returned"
    /\ \A i \in 1..Len(log) : log[i].exc.kind \notin TransportFailures

\* the invocations of the fetch that a transport failure ended
TransportFailed ==
    SelectSeq(log, LAMBDA e : e.ev = "invoke" /\ e.exc.kind \in TransportFailures)

\* C32: transport failures are counted over the whole fetch.  With tries = n
\* the fetch raises a transport failure exactly when the n-th transport
\* failure of the call happens, and it is that failure; the attempt counter
\* is one more than the transport failures so far (their number, between a
\* failure and the end of its backoff sleep), whatever anti-bot answers and
\* status sleeps came between.
TransportTriesOverWholeFetch ==
    /\ Len(TransportFailed) <= tries
    /\ (wpc = "raised" /\ outcome.kind \in TransportFailures)
          <=> Len(TransportFailed) = tries
    /\ Len(TransportFailed) = tries => outcome = TransportFailed[tries].exc
    /\ wpc = "call" => attempt = Len(TransportFailed) + 1
    /\ wpc \in {"callback", "sleep"} => attempt = Len(TransportFailed)

\* C32 witness: tries >= 2 used up by transport failures, each of them after
\* an anti-bot answer and its status sleep in the same invocation.
FailuresBetweenStatusRetries ==
    /\ wpc = "raised" /\ outcome.kind \in TransportFailures
    /\ tries >= 2 /\ status_retries >= 1
    /\ Len(status_sleeps) = tries
    /\ n_requests = 2 * tries
    /\ req_attempt = 2

\* ------------------------------------------- claims on the concurrent calls
\* C24: the backoff and status-retry state is local to a call.  Every
\* invocation of the wrapper starts at attempt 1 with current_delay = delay
\* and a status attempt count of 0, whatever earlier calls of the thread and
\* calls in flight on other threads have done; and a step of one thread's
\* call never changes the counters or delay of another thread's call.
CallLocalState ==
    [][/\ \A c \in Callers :
            Len(ended'[c]) = Len(ended[c]) /\ Frame(c).tpc = "idle"
            /\ Frame(c)'.tpc # "idle"
            => Frame(c)' = [tpc |-> "top", attempt |-> 1,
                            current_delay |-> delay, req_attempt |-> 0]
       /\ \A c, d \in Callers :
            c # d => Frame(c)' = Frame(c) \/ Frame(d)' = Frame(d)]_vars

\* C24 witness: thread 1, whose first call ended in a raised failure, is in
\* its second call at attempt 1 with the base delay, while thread 2's call
\* is at a later attempt with a multiplied delay and a counted status retry,
\* and the shared bucket has been drawn on.
FreshCallBesideBackedOffCall ==
    /\ ended[1] = <<"raised">>
    /\ frames[1].tpc = "request"
    /\ frames[1].attempt = 1 /\ frames[1].current_delay = delay
    /\ frames[1].req_attempt = 1
    /\ frames[2].attempt > 1 /\ frames[2].current_delay > delay
    /\ frames[2].req_attempt = 2
    /\ tokens < capacity

\* --------------------------------------------- claims on the extraction
Extracted == result # NoResult
DeclaresJson ==
    call.response.ctype \in
        {Some("application/json"), Some("Application/JSON; charset=UTF-8"),
         Some("text/json"), Some("text/html; charset=JSON")}
Decoded == call.response.json # Undecodable
\* what the HTML path gives for the same body and schema
AsHtml ==
    ParseJsonOrHtml([call.response EXCEPT !.ctype = Some("text/html")],
                    call.list_selector, call.item_schema)
Matched == Select(call.response.nodes, call.list_selector[1])
Fields == IF call.item_schema = None THEN {} ELSE DOMAIN call.item_schema[1]

\* C25: a response with a JSON content type whose body decodes gives
\* source "json"; when the body does not decode the call does not fail, it
\* gives source "html" with the items of the HTML path for that body, list
\* selector and item schema.
JsonFirstFallback ==
    Extracted /\ DeclaresJson =>
        /\ Decoded => result.source = "json"
        /\ ~Decoded => result.source = "html" /\ result.items = AsHtml.items
        /\ result.status_code = call.response.status_code

\* C25 witness: a JSON content type written in capitals, a body that does
\* not decode, and items extracted from its markup.
FellThroughToHtml ==
    /\ Extracted /\ ~Decoded
    /\ call.response.ctype = Some("Application/JSON; charset=UTF-8")
    /\ result.source = "html" /\ Len(result.items.v) = 2

\* C26 (as stated): from a decoded object the items are its `items` member
\* when that member is present, otherwise its `results` member when present,
\* otherwise the empty sequence; from a decoded sequence, that sequence.
ItemsMemberWhenPresent ==
    Extracted /\ DeclaresJson /\ Decoded =>
        LET data == call.response.json IN
        /\ data.t = "dict" =>
              result.items = IF data.items # None THEN data.items[1]
                             ELSE IF data.results # None THEN data.results[1]
                             ELSE JsonList(<<>>)
        /\ data.t = "list" => result.items = data

\* what the code takes a member for: there, and neither null, zero nor empty
Usable(m) ==
    /\ m # None
    /\ m[1] \notin {JsonNull, JsonNumber(0), JsonList(<<>>)}

\* C26 (amended): from a decoded object the items are its `items` member
\* when that member is present and neither null, zero nor empty, otherwise
\* its `results` member under the same condition, otherwise the empty
\* sequence; from a decoded sequence, that sequence.
ItemsMemberWhenUsable ==
    Extracted /\ DeclaresJson /\ Decoded =>
        LET data == call.response.json IN
        /\ data.t = "dict" =>
              result.items = IF Usable(data.items) THEN data.items[1]
                             ELSE IF Usable(data.results) THEN data.results[1]
                             ELSE JsonList(<<>>)
        /\ data.t = "list" => result.items = data

\* C26 witness: an object with an empty `items` and a non-empty `results`
\* gave the results.
EmptyItemsGaveResults ==
    /\ Extracted /\ DeclaresJson
    /\ call.response.json = JsonObject(Some(JsonList(<<>>)), Some(JsonList(<<"r1">>)))
    /\ result.items = JsonList(<<"r1">>)

OnHtmlPath == Extracted /\ result.source = "html"
OnePerContainer ==
    /\ Len(result.items.v) = Len(Matched)
    /\ \A i \in DOMAIN Matched :
          /\ DOMAIN result.items.v[i] = Fields
          /\ \A f \in Fields :
                result.items.v[i][f] = FieldValue(Matched[i], call.item_schema[1][f])

\* C27 (as stated): on the HTML path no list selector gives no items;
\* otherwise there is one item per container the selector matches, in
\* document order, each with exactly the fields of the schema as keys (none
\* when the schema is empty or absent).
OneItemPerContainer ==
    OnHtmlPath =>
        IF call.list_selector = None THEN result.items.v = <<>>
        ELSE OnePerContainer

\* C27 (amended): on the HTML path there are no items when the list selector
\* or the schema is absent or empty; otherwise there is one item per
\* container the selector matches, in document order, each with exactly the
\* fields of the schema as keys.
OneItemPerContainerGivenSchema ==
    OnHtmlPath =>
        IF \/ call.list_selector \in {None, Some("")}
           \/ call.item_schema = None
           \/ Fields = {}
        THEN result.items.v = <<>>
        ELSE OnePerContainer

\* C27 witness: two containers and a schema of two fields gave two items of
\* two fields, the first different from the second.
TwoItemsInOrder ==
    /\ OnHtmlPath
    /\ Len(call.response.nodes) = 2 /\ Fields = {"link", "title"}
    /\ Len(result.items.v) = 2
    /\ result.items.v[1]["link"] = None /\ result.items.v[2]["link"] = Some("/c")

\* the value C28 gives a field; srcCounts(el) says when an image's src is
\* taken
Precedence(node, selector, srcCounts(_)) ==
    LET attr == CASE selector = "attr:href" -> Some("href")
                  [] selector = " attr: src " -> Some("src")
                  [] selector = "attr:data-id" -> Some("data-id")
                  [] OTHER -> None
        tag == IF selector = " img " THEN "img" ELSE selector
        first == IF \E i \in DOMAIN node.els : node.els[i].name = tag
                 THEN Some(node.els[CHOOSE i \in DOMAIN node.els :
                                /\ node.els[i].name = tag
                                /\ \A j \in 1..(i - 1) : node.els[j].name # tag])
                 ELSE None
        trimmed(el) == IF el.text = " Link " THEN "Link"
                       ELSE IF el.text = " Text " THEN "Text" ELSE el.text
    IN IF attr # None
       THEN (IF attr[1] = "href" THEN node.href
             ELSE IF attr[1] = "src" THEN node.src ELSE None)
       ELSE IF first = None THEN None
       ELSE IF first[1].name = "img" /\ srcCounts(first[1]) THEN first[1].src
       ELSE IF first[1].href # None
            THEN (IF first[1].href = Some("") THEN Some(trimmed(first[1]))
                  ELSE first[1].href)
       ELSE Some(trimmed(first[1]))

FieldsFollow(srcCounts(_)) ==
    OnHtmlPath =>
        \A i \in DOMAIN result.items.v : \A f \in DOMAIN result.items.v[i] :
            result.items.v[i][f] =
                Precedence(Matched[i], call.item_schema[1][f], srcCounts)

\* C28 (as stated): an `attr:` expression gives the container's own
\* attribute (null if absent) whatever its descendants; otherwise the first
\* descendant the sub-selector matches decides: none gives null, an image
\* with a src attribute that src, an element with an href that href or, if
\* it is empty, its trimmed text, any other element its trimmed text.
ExtractionPrecedence == FieldsFollow(LAMBDA el : el.src # None)

\* C28 (amended): the same, with the image's src taken only when the image
\* has a non-empty src attribute.
ExtractionPrecedenceNonEmptySrc ==
    FieldsFollow(LAMBDA el : el.src # None /\ el.src # Some(""))

\* C28 witness: the container has an href and an anchor descendant with
\* another href; `attr:href` gave the container's and `a` the anchor's.
AttributeOffContainer ==
    /\ OnHtmlPath
    /\ Fields = {"link", "title"}
    /\ Len(result.items.v) = 1
    /\ call.response.nodes[1].href = Some("/c")
    /\ result.items.v[1]["link"] = Some("/c")
    /\ result.items.v[1]["title"] = Some("/x")

\* ------------------------------------------------ claims on the scheduler
\* C33: run_with_retry with max_retries = m >= 1 calls func at most m times
\* and nothing after a call that succeeded; after the i-th failure, i < m,
\* it sleeps min(max_delay, base_delay * 2^(i-1)) + jitter; after the m-th
\* failure it raises that failure again, marked with the run_id and the
\* source_id of the context, without a sleep.
RunWithRetryBounded ==
    job.max_retries >= 1 =>
        /\ job.calls <= job.max_retries
        /\ job.calls = IF job.jpc = "returned" THEN job.attempt + 1 ELSE job.attempt
        /\ job.jpc = "returned" => ~ENABLED RunWithRetry
        /\ Len(job.slept) = IF job.jpc \in {"sleep", "raised"} THEN job.attempt - 1
                            ELSE job.attempt
        /\ \A i \in 1..Len(job.slept) :
              /\ i < job.max_retries
              /\ job.slept[i] =
                    Min(job.max_delay, job.base_delay * 2^(i - 1)) + job.jitter
        /\ job.jpc = "raised" <=> job.attempt = job.max_retries
        /\ job.jpc = "raised" =>
              /\ job.exc.marked /\ ~ENABLED RunWithRetry
              /\ job.exc.run_id =
                    IF job.context = None THEN None ELSE job.context[1].run_id
              /\ job.exc.source_id =
                    IF job.context = None THEN None ELSE job.context[1].source_id
        /\ job.jpc # "raised" => ~job.exc.marked

\* C33 witness: three failures with max_retries = 3; the second sleep was cut
\* to max_delay, jitter was added, and the failure left with the ids of the
\* context.
RaisedAfterCappedSleep ==
    /\ job.jpc = "raised" /\ job.max_retries = 3 /\ job.calls = 3
    /\ job.jitter = 1
    /\ job.max_delay < 2 * job.base_delay
    /\ job.slept = <<job.base_delay + 1, job.max_delay + 1>>
    /\ job.exc.run_id = Some("run1") /\ job.exc.source_id = Some("src1")

\* ------------------------------------------------- claims on the database
Left == db.dpc \in {"returned", "raised"}
Position(op) == CHOOSE i \in 1..Len(db.ops) : db.ops[i] = op
Did(op) == \E i \in 1..Len(db.ops) : db.ops[i] = op
Times(op) == Cardinality({i \in 1..Len(db.ops) : db.ops[i] = op})

StatusSleepsArePowersOfTwo ==
    AllBlocked /\ n_requests > 0 =>
        /\ status_sleeps = PowersOfTwo(Len(status_sleeps))
        /\ IF Finished
           THEN /\ wpc = "raised" /\ outcome.kind = "HTTPError"
                /\ n_requests = status_retries + 2
                /\ Len(status_sleeps) = status_retries + 1
                /\ fpc = "idle"
           ELSE /\ n_requests <= status_retries + 1
                /\ Len(status_sleeps) =
                      n_requests - (IF fpc = "status_sleep" THEN 1 ELSE 0)

\* C29 witness: a fetch with a budget of at least one failed on block
\* statuses of more than one kind.
BlockedByMixedStatuses ==
    /\ AllBlocked /\ Finished /\ ~only_429
    /\ status_retries >= 1 /\ Len(status_sleeps) = status_retries + 1

\* C30: a thread that is the only one ever to call consume, with rate > 0
\* and 0 < cost <= capacity, sleeps at most once in a call; with rate = 0 a
\* sleep lasts the polling interval whatever is missing.
SolitaryCallerSleepsOnce ==
    \A c \in Callers :
        (\A d \in Callers \ {c} : pc[d] = "idle") =>
            /\ rate > 0 /\ 0 < cost[c] /\ cost[c] <= capacity => nsleeps[c] <= 1
            /\ rate = 0 /\ pc[c] = "sleep" =>
                  (ENABLED Wake(c) <=> now - sleep_from[c] >= PollTicks)

\* C30 witness: a solitary caller returned after its one sleep.
SolitaryReturnedAfterOneSleep ==
    \E c \in Callers :
        /\ \A d \in Callers \ {c} : pc[d] = "idle"
        /\ rate > 0 /\ pc[c] = "returned" /\ nsleeps[c] = 1
        /\ deducted[c] = cost[c] /\ cost[c] > 0

\* a call the bucket can never serve: its cost is over the capacity, or the
\* bucket does not refill and holds less than the cost
Starved(c) == cost[c] > capacity \/ (rate = 0 /\ tokens < cost[c])

\* C31: consume(cost) never returns when cost > capacity, nor when rate = 0
\* and the tokens left are fewer than cost: a call in that condition stays in
\* the refill/test/sleep loop and in that condition at every step, whatever
\* the other threads and the clock do.
StarvedCallNeverReturns ==
    [][\A c \in Callers :
          InCall(c) /\ Starved(c) => InCall(c)' /\ Starved(c)' /\ pc'[c] # "deduct"]_vars

\* C31 witness: on a bucket that does not refill, thread 1 asked for more
\* than the capacity and thread 2, after taking the last token, asked for
\* one more; both have gone to sleep a second time.
BothCallsPollingForever ==
    /\ rate = 0
    /\ pc[1] = "sleep" /\ cost[1] > capacity /\ nsleeps[1] = 2
    /\ pc[2] = "sleep" /\ cost[2] <= capacity /\ tokens < cost[2] /\ nsleeps[2] = 2
    /\ deducted[2] = 0 /\ admitted > 0

\* ------------------------------------------------ claims on the identity
\* C21: the headers sent with an attempt are the drawn User-Agent overlaid
\* with the caller's headers: a User-Agent of the caller wins, every other
\* header of the caller is passed on, nothing else is added; the proxy sent
\* is the drawn one, none when the identity has none; and the caller's
\* mapping is as it was.
OutgoingHeaders ==
    \A c \in Callers :
        sent[c] # NoRequest =>
            LET r == sent[c] IN
            /\ DOMAIN r.headers = {"User-Agent"} \cup DOMAIN r.caller
            /\ \A k \in DOMAIN r.caller : r.headers[k] = r.caller[k]
            /\ "User-Agent" \notin DOMAIN r.caller => r.headers["User-Agent"] = r.ua
            /\ r.ua \in Range(_ua_list)
            /\ r.proxies # NoProxy => r.proxies \in Range(_proxies)
            /\ r.caller_after = r.caller

\* C21 witness: a request went out through a proxy for a caller who gave
\* a User-Agent of their own and another header.
CallerUserAgentSent ==
    \E c \in Callers :
        /\ sent[c] # NoRequest
        /\ DOMAIN sent[c].caller = HeaderNames
        /\ sent[c].headers["User-Agent"] # sent[c].ua
        /\ sent[c].proxies # NoProxy

\* C22: once loaded, the user-agent list is not empty and holds no blank;
\* it is what the environment variables give when they give anything, else
\* what the file gives when it is there, readable and gives anything, else
\* the one built-in user agent.
UserAgentPoolNeverEmpty ==
    loaded # "none" =>
        LET env == EnvList(config.ua_env[1]) \o EnvList(config.ua_env[2])
            file == IF config.ua_file.state = "lines"
                    THEN Stripped(config.ua_file.lines) ELSE <<>>
        IN /\ _ua_list # <<>>
           /\ \A i \in DOMAIN _ua_list : _ua_list[i] \notin {"", " "}
           /\ _ua_list = (IF env # <<>> THEN env
                          ELSE IF file # <<>> THEN file
                          ELSE <<DefaultUA>>)

\* C22 witness: the variables were set but gave nothing, and the list came
\* from the file.
UserAgentsFromFile ==
    /\ loaded = "ready"
    /\ config.ua_env[1].kind # "unset" /\ config.ua_env[2].kind = "unset"
    /\ config.ua_file.state = "lines"
    /\ _ua_list = <<"ua3", "ua1">>

\* C23: a drawn user agent is in the user-agent list; a drawn proxy is in
\* the proxy list, or there is none, which is so exactly when the list is
\* empty; and the lists stay what start-up made them, whatever the threads
\* draw.
DrawsWithinPools ==
    /\ \A c \in Callers :
          drawn[c] # NoIdentity =>
              /\ drawn[c].ua \in Range(_ua_list)
              /\ drawn[c].proxy = NoProxy <=> _proxies = <<>>
              /\ drawn[c].proxy # NoProxy => drawn[c].proxy \in Range(_proxies)
    /\ loaded = "ready" =>
          /\ _ua_list = UserAgentList(config)
          /\ _proxies = ProxyList(config)

\* C23 witness: the two threads hold identities drawn at the same time,
\* with different user agents and different proxies.
ConcurrentDraws ==
    /\ \A c \in Callers : idpc[c] = "send"
    /\ drawn[1].ua # drawn[2].ua
    /\ drawn[1].proxy # drawn[2].proxy
    /\ n_sent > 0

=============================================================================
